---- MODULE Spec2Model ----
(***************************************************************************)
(* RHD2164 driver (src/c/rhd.c, src/c/rhd.h): the device session, its      *)
(* register protocol, its channel sampler and the transports it is handed. *)
(* One action per driver call; the calls that make several exchanges       *)
(* (rhd_setup, rhd_calib, rhd_sample_all) advance one exchange per step.   *)
(***************************************************************************)
EXTENDS Integers, Sequences, FiniteSets, TLC

\* ------------------------------------------------------------------ bounds
\* driver calls made in one run
MaxOps == 1
\* exchanges the unreliable transport lets fail in one call
MaxFail == 1
\* driver calls made in one run of call sequences
MaxSeq == 2

\* --------------------------------------------------------------- constants
WordMod == 65536
ByteMod == 256
NBYTES == 128
NCH == 32
NREG == 22
CHIP_ID == 63
CALIB_CMD == 85
CLEAR_CALIB_CMD == 106

\* ------------------------------------------------------- machine arithmetic
Bit(x, n) == (x \div (2 ^ n)) % 2

\* x & y and x | y on non-negative integers
RECURSIVE BitAnd(_, _)
BitAnd(x, y) ==
    IF x = 0 \/ y = 0 THEN 0
    ELSE ((x % 2) * (y % 2)) + 2 * BitAnd(x \div 2, y \div 2)

BitOr(x, y) == x + y - BitAnd(x, y)

\* x & m and x | v where m is a single bit and v is zero or a single bit
AndBit(x, m) == ((x \div m) % 2) * m
OrBit(x, v) == IF v = 0 THEN x ELSE x + v - AndBit(x, v)

U16(x) == x % WordMod
U8(x) == x % ByteMod

\* ------------------------------------------------------------------ tables
RHD_ADC_CH_CMD_DOUBLE ==
    LET t == << 0, 3, 12, 15, 48, 51, 60, 63, 192, 195, 204,
                207, 240, 243, 252, 255, 768, 771, 780, 783, 816, 819,
                828, 831, 960, 963, 972, 975, 1008, 1011, 1020, 1023 >>
    IN [c \in 0..(NCH - 1) |-> t[c + 1]]

RHD_ADC_CH_CMD ==
    LET t == << 0, 1, 2, 3, 4, 5, 6, 7, 8, 9, 10,
                11, 12, 13, 14, 15, 16, 17, 18, 19, 20, 21,
                22, 23, 24, 25, 26, 27, 28, 29, 30, 31 >>
    IN [c \in 0..(NCH - 1) |-> t[c + 1]]

val_buf ==
    LET t == << 222, 32, 40, 2, 199, 0,
                0, 0, 6, 9, 2, 11,
                54, 0, 255, 255, 255, 255,
                255, 255, 255, 255 >>
    IN [r \in 0..(NREG - 1) |-> t[r + 1]]

shift_arr ==
    LET t == << 1, 2, 4, 8, 16, 32, 64, 128 >>
    IN [k \in 0..7 |-> t[k + 1]]

\* --------------------------------------------------------------- bit codec
RECURSIVE dup_loop(_, _, _)
dup_loop(val, k, out) ==
    IF k >= 8 THEN out
    ELSE LET tmp == BitAnd(val \div (2 ^ k), 1)
         IN dup_loop(val, k + 1, BitOr(out, BitOr(tmp * 2, tmp) * (2 ^ (2 * k))))

dup_table == [v \in 0..(ByteMod - 1) |-> dup_loop(v, 0, 0)]

\* int rhd_duplicate_bits(uint8_t val)
rhd_duplicate_bits(val) == dup_table[U8(val)]

RECURSIVE unsplit_loop(_, _, _, _)
unsplit_loop(data, k, aa, bb) ==
    IF k >= 8 THEN [a |-> aa, b |-> bb]
    ELSE LET dataa == data \div 2
         IN unsplit_loop(data, k + 1,
                         U8(OrBit(aa, AndBit(dataa \div (2 ^ k), shift_arr[k]))),
                         U8(OrBit(bb, AndBit(data \div (2 ^ k), shift_arr[k]))))

\* rhd_unsplit_u16 handing the even bits to a and the odd bits to b
rhd_unsplit_u16_swapped(data) ==
    LET r == unsplit_loop(U16(data), 0, 0, 0)
    IN [a |-> r.b, b |-> r.a]

\* void rhd_unsplit_u16(uint16_t data, uint8_t *a, uint8_t *b)
rhd_unsplit_u16(data) == unsplit_loop(U16(data), 0, 0, 0)

\* ------------------------------------------------------------------- state
VARIABLES
    double_bits,   \* dev->double_bits
    rw,            \* dev->rw: the transport the session was given
    tx_buf,        \* dev->tx_buf[2]
    rx_buf,        \* dev->rx_buf[2]
    sample_buf,    \* dev->sample_buf[128]
    pc,            \* "idle", or the call in progress
    i,             \* loop index of the call in progress
    ch,            \* rhd_sample_all's ch
    ret,           \* the call's ret / the value it returned
    op,            \* the last call started
    a1, a2,        \* its arguments
    nx,            \* exchanges the call has made
    last,          \* the latest exchange: what was handed to rw and what it returned
    nfail,         \* exchanges of the call that returned a negative status
    dec,           \* the decodes of the call: <<exchange number, channel>>
    written,       \* sample_buf indices the call has stored to
    hist,          \* the chip's two pending replies, older first
    badreg,        \* the register whose write the chip echoed wrongly in this rhd_setup
    ops,           \* calls made
    prev,          \* the call made before the last one started
    codec          \* the latest direct use of the bit codec: function, argument, results

vars == << double_bits, rw, tx_buf, rx_buf, sample_buf, pc, i, ch, ret, op,
           a1, a2, nx, last, nfail, dec, written, hist, badreg, ops, prev, codec >>

NoReg == 0 - 1

\* the transports a session is given (rhd_rw_t)
FlakyRw == "rw_flaky"
Chip1Rw == "rw_chip1"
Chip2Rw == "rw_chip2"
Transports == {FlakyRw, Chip1Rw, Chip2Rw}
Chips == {Chip1Rw, Chip2Rw}

\* the negative statuses a failed exchange returns
FailCodes == {0 - 1, 0 - 5}

Buf2(w0, w1) == [j \in 0..1 |-> IF j = 0 THEN w0 ELSE w1]

\* what memory the program never wrote may hold
GarbageWords == {0, 65535}

\* ---------------------------------------------------------------- transport
\* replies lag their request by this many exchanges
chip_delay(h) == IF h = Chip1Rw THEN 1 ELSE 2

\* the chip echoes the request's data; a badly latched write comes back with
\* its data changed in the least significant (doubled: two least) bits
chip_result(tx, len, bad) ==
    LET w0 == tx[0]
        w1 == IF len = 2 THEN tx[1] ELSE 0
    IN IF ~bad THEN Buf2(w0, w1)
       ELSE IF len = 2 THEN Buf2(w0, w1 - (w1 % 4) + (3 - (w1 % 4)))
       ELSE Buf2(w0 - (w0 % 2) + (1 - (w0 % 2)), w1)

\* the fake transport of the tests (FlakyRw, when the exchange goes through):
\* fills both receive words, returns len
test_rw(tx, len) ==
    [st |-> len, rx |-> Buf2(43690, 21845), wr |-> {0, 1}, hist |-> hist]

\* a pipelined chip behind the link: fills the len receive words with the
\* pending reply, returns len
chip_rw(tx, len, bad) ==
    LET rep == hist[3 - chip_delay(rw)]
    IN [st |-> len,
        rx |-> Buf2(rep[0], IF len = 2 THEN rep[1] ELSE rx_buf[1]),
        wr |-> 0..(len - 1),
        hist |-> << hist[2], chip_result(tx, len, bad) >>]

\* a failed exchange: negative status c, receive buffer untouched
fail_rw(c) == [st |-> c, rx |-> rx_buf, wr |-> {}, hist |-> hist]

\* what dev->rw(tx, rx_buf, len) may do; nf failures so far in this call
RwOutcomes(tx, len, bad, nf) ==
    IF rw \in Chips THEN {chip_rw(tx, len, bad)}
    ELSE {test_rw(tx, len)}
         \cup (IF nf < MaxFail THEN {fail_rw(c) : c \in FailCodes} ELSE {})

\* ------------------------------------------------------------ driver: code
\* rhd_send_raw: tx_buf[0] = val; tx_buf[1] keeps what it held
rhd_send_raw_tx(val) == [tx_buf EXCEPT ![0] = U16(val)]

\* rhd_send_raw asking for one word whatever the mode
rhd_send_raw_len_one == IF double_bits THEN 1 ELSE 1

rhd_send_raw_len == IF double_bits THEN 2 ELSE 1

rhd_send_raw_ret(o) == o.st

\* rhd_send with the two doubled words in each other's place
rhd_send_tx_swapped(reg, val) ==
    IF double_bits
    THEN Buf2(U16(rhd_duplicate_bits(val)), U16(rhd_duplicate_bits(reg)))
    ELSE [tx_buf EXCEPT ![0] = U16(BitOr(U16(val) * 256, BitAnd(U16(reg), 255)))]

\* rhd_send: the transmit words for (reg, val), both uint16_t
rhd_send_tx(reg, val) ==
    IF double_bits
    THEN Buf2(U16(rhd_duplicate_bits(reg)), U16(rhd_duplicate_bits(val)))
    ELSE [tx_buf EXCEPT ![0] = U16(BitOr(U16(reg) * 256, BitAnd(U16(val), 255)))]

rhd_send_len == IF double_bits THEN 2 ELSE 1

\* rhd_send returning -1 for every failure
rhd_send_ret_flat(o) == IF o.st < 0 THEN 0 - 1 ELSE o.st

rhd_send_ret(o) == o.st

\* rhd_r / rhd_w: reg = (reg & 0x3F) | 0xC0, reg = (reg & 0x3F) | 0x80
rhd_r_reg(reg) == BitOr(BitAnd(U16(reg), 63), 192)

\* rhd_w setting the read bits
rhd_w_reg_as_read(reg) == BitOr(BitAnd(U16(reg), 63), 192)

rhd_w_reg(reg) == BitOr(BitAnd(U16(reg), 63), 128)

\* rhd_get_val_from_rx
rhd_get_val_from_rx(rx) ==
    IF double_bits THEN rhd_unsplit_u16(rx[1]).a ELSE BitAnd(rx[0], 255)

\* rhd_setup comparing with the write just before, from register 1 on
setup_check_prev(r, rx, k) ==
    IF k < 1 THEN r
    ELSE LET c == k - 1
             val == U8(rhd_get_val_from_rx(rx))
         IN IF val # val_buf[c] THEN 0 - 1 ELSE r

\* the receive words rhd_get_val_from_rx and rhd_get_samples_from_rx read
val_rx_read == IF double_bits THEN {1} ELSE {0}
samples_rx_read == {0, 1}

\* rhd_setup: the comparison made after the write of register k
setup_check(r, rx, k) ==
    IF k < 2 THEN r
    ELSE LET c == k - 2
             val == U8(rhd_get_val_from_rx(rx))
         IN IF val # val_buf[c] THEN 0 - 1 ELSE r

\* rhd_get_samples_from_rx: the indices it stores to
sample_idx(c) ==
    LET ch_l == c * 2
        ch_h == (c + 32) * 2
    IN {ch_l, ch_l + 1, ch_h, ch_h + 1}

\* rhd_get_samples_from_rx with bank B at ch + 32 instead of (ch + 32) * 2
rhd_get_samples_from_rx_bank(sb, rx, c) ==
    LET ch_l == c * 2
        ch_h == c + 32
        u0 == rhd_unsplit_u16(rx[0])
        u1 == rhd_unsplit_u16(rx[1])
        s1 == IF double_bits
              THEN [sb EXCEPT ![ch_l] = u0.a,
                              ![ch_h] = u0.b,
                              ![ch_l + 1] = u1.a,
                              ![ch_h + 1] = u1.b]
              ELSE [sb EXCEPT ![ch_l] = BitAnd(rx[0] \div 256, 255),
                              ![ch_l + 1] = BitAnd(rx[0], 255),
                              ![ch_h] = BitAnd(rx[1] \div 256, 255),
                              ![ch_h + 1] = BitAnd(rx[1], 255)]
    IN [s1 EXCEPT ![ch_l + 1] = BitOr(s1[ch_l + 1], 1),
                  ![ch_h + 1] = BitOr(s1[ch_h + 1], 1)]

\* rhd_get_samples_from_rx storing a plain word's low byte first
rhd_get_samples_from_rx_low_first(sb, rx, c) ==
    LET ch_l == c * 2
        ch_h == (c + 32) * 2
        u0 == rhd_unsplit_u16(rx[0])
        u1 == rhd_unsplit_u16(rx[1])
        s1 == IF double_bits
              THEN [sb EXCEPT ![ch_l] = u0.a,
                              ![ch_h] = u0.b,
                              ![ch_l + 1] = u1.a,
                              ![ch_h + 1] = u1.b]
              ELSE [sb EXCEPT ![ch_l] = BitAnd(rx[0], 255),
                              ![ch_l + 1] = BitAnd(rx[0] \div 256, 255),
                              ![ch_h] = BitAnd(rx[1], 255),
                              ![ch_h + 1] = BitAnd(rx[1] \div 256, 255)]
    IN [s1 EXCEPT ![ch_l + 1] = BitOr(s1[ch_l + 1], 1),
                  ![ch_h + 1] = BitOr(s1[ch_h + 1], 1)]

\* rhd_get_samples_from_rx: the sample buffer after decoding rx into channel c
rhd_get_samples_from_rx(sb, rx, c) ==
    LET ch_l == c * 2
        ch_h == (c + 32) * 2
        u0 == rhd_unsplit_u16(rx[0])
        u1 == rhd_unsplit_u16(rx[1])
        s1 == IF double_bits
              THEN [sb EXCEPT ![ch_l] = u0.a,
                              ![ch_h] = u0.b,
                              ![ch_l + 1] = u1.a,
                              ![ch_h + 1] = u1.b]
              ELSE [sb EXCEPT ![ch_l] = BitAnd(rx[0] \div 256, 255),
                              ![ch_l + 1] = BitAnd(rx[0], 255),
                              ![ch_h] = BitAnd(rx[1] \div 256, 255),
                              ![ch_h + 1] = BitAnd(rx[1], 255)]
    IN [s1 EXCEPT ![ch_l + 1] = BitOr(s1[ch_l + 1], 1),
                  ![ch_h + 1] = BitOr(s1[ch_h + 1], 1)]

\* rhd_calib taking the status of its latest exchange as its result
calib_ret_latest(r, o) == o.st

\* rhd_calib: ret after a dummy read with outcome o, the read's status dropped
calib_ret(r, o) == r

\* rhd_setup leaving its loop at the first mismatch
setup_continue_abort(k, r) == k + 1 < NREG /\ r = 0

\* rhd_setup: whether the loop goes on after step k with ret = r
setup_continue(k, r) == k + 1 < NREG

\* the decode left out when the exchange failed
sample_decode_checked(sb, o, c) ==
    IF o.st < 0 THEN sb ELSE rhd_get_samples_from_rx(sb, o.rx, c)

\* rhd_sample, rhd_sample_all: the decode that follows the exchange with
\* outcome o, its status not looked at
sample_decode(sb, o, c) == rhd_get_samples_from_rx(sb, o.rx, c)

\* rhd_sample_all: base, the command of loop step k, the closing mask
sample_all_base == IF double_bits THEN RHD_ADC_CH_CMD_DOUBLE ELSE RHD_ADC_CH_CMD

\* rhd_sample_all priming with channel 0
sample_all_first_ch0 == sample_all_base[0]

sample_all_first == sample_all_base[1]

\* rhd_sample_all asking in loop step k for the channel before k
sample_all_cmd_behind(k) ==
    IF k < 32 THEN sample_all_base[k - 1] ELSE sample_all_base[0]

\* rhd_sample_all wrapping the channel around instead of flushing with channel 0
sample_all_cmd_wrap(k) == sample_all_base[k % 32]

sample_all_cmd(k) == IF k < 32 THEN sample_all_base[k] ELSE sample_all_base[0]

\* rhd_sample_all masking the first byte of channel 0 instead of its flag byte
sample_all_mark_low(sb) == [sb EXCEPT ![0] = BitAnd(sb[0], 254)]

sample_all_mark(sb) == [sb EXCEPT ![1] = BitAnd(sb[1], 254)]

\* --------------------------------------------------------- driver: actions
\* the registers whose write the chip may echo wrongly
FaultRegs == {0, 19, 20, 21}

\* a call begins
Start(name, x, y) ==
    /\ pc = "idle"
    /\ ops' = ops + 1
    /\ op' = name
    /\ prev' = op
    /\ a1' = x
    /\ a2' = y
    /\ badreg' = NoReg
    /\ UNCHANGED << double_bits, rw, codec >>

\* a call goes on
Cont(name) ==
    /\ pc = name
    /\ UNCHANGED << double_bits, rw, op, a1, a2, ops, prev, codec >>

\* dev->rw(dev->tx_buf, dev->rx_buf, len) with outcome o, tx_buf holding newtx
Xchg(newtx, len, o, first) ==
    /\ tx_buf' = newtx
    /\ rx_buf' = o.rx
    /\ hist' = o.hist
    /\ nx' = IF first THEN 1 ELSE nx + 1
    /\ last' = [tx |-> newtx, len |-> len, st |-> o.st, wr |-> o.wr,
                txp |-> "tx_buf", rxp |-> "rx_buf"]
    /\ nfail' = (IF first THEN 0 ELSE nfail) + (IF o.st < 0 THEN 1 ELSE 0)

rhd_init(mode, h) ==
    /\ pc = "idle"
    /\ ops' = ops + 1
    /\ double_bits' = mode
    /\ rw' = h
    /\ ret' = 0
    /\ op' = "init"
    /\ prev' = op
    /\ a1' = 0
    /\ a2' = 0
    /\ nx' = 0
    /\ nfail' = 0
    /\ dec' = << >>
    /\ written' = {}
    /\ badreg' = NoReg
    /\ UNCHANGED << tx_buf, rx_buf, sample_buf, pc, i, ch, last, hist, codec >>

rhd_send_raw(val) ==
    \E o \in RwOutcomes(rhd_send_raw_tx(val), rhd_send_raw_len, FALSE, 0) :
        /\ Start("send_raw", val, 0)
        /\ Xchg(rhd_send_raw_tx(val), rhd_send_raw_len, o, TRUE)
        /\ ret' = rhd_send_raw_ret(o)
        /\ dec' = << >>
        /\ written' = {}
        /\ UNCHANGED << sample_buf, pc, i, ch >>

\* the body shared by the calls that are one rhd_send
SendCall(name, x, y, reg, val) ==
    \E o \in RwOutcomes(rhd_send_tx(reg, val), rhd_send_len, FALSE, 0) :
        /\ Start(name, x, y)
        /\ Xchg(rhd_send_tx(reg, val), rhd_send_len, o, TRUE)
        /\ ret' = rhd_send_ret(o)
        /\ dec' = << >>
        /\ written' = {}
        /\ UNCHANGED << sample_buf, pc, i, ch >>

rhd_send(reg, val) == SendCall("send", reg, val, reg, val)

rhd_r(reg, val) == SendCall("r", reg, val, rhd_r_reg(reg), val)

rhd_w(reg, val) == SendCall("w", reg, val, rhd_w_reg(reg), val)

rhd_clear_calib == SendCall("clear_calib", 0, 0, CLEAR_CALIB_CMD, 0)

rhd_sample(c) ==
    \E o \in RwOutcomes(rhd_send_tx(RHD_ADC_CH_CMD[c], 0), rhd_send_len, FALSE, 0) :
        /\ Start("sample", c, 0)
        /\ Xchg(rhd_send_tx(RHD_ADC_CH_CMD[c], 0), rhd_send_len, o, TRUE)
        /\ sample_buf' = sample_decode(sample_buf, o, c)
        /\ ret' = rhd_send_ret(o)
        /\ dec' = << << 1, c >> >>
        /\ written' = sample_idx(c)
        /\ UNCHANGED << pc, i, ch >>

\* RHD_ADC_CH_CMD[c] for c past the table's 32 entries: whatever word the
\* memory after the table holds
adc_cmd_beyond(c) == GarbageWords

\* rhd_get_samples_from_rx for c above 31: ch_l = 2c is inside the buffer up to
\* c = 63, ch_h = 2c + 64 never is; the stores outside the buffer land in
\* memory this model does not hold
rhd_get_samples_beyond(sb, rx, c) ==
    LET ch_l == c * 2
        u0 == rhd_unsplit_u16(rx[0])
        u1 == rhd_unsplit_u16(rx[1])
        v0 == IF double_bits THEN u0.a ELSE BitAnd(rx[0] \div 256, 255)
        v1 == IF double_bits THEN u1.a ELSE BitAnd(rx[0], 255)
    IN [j \in 0..(NBYTES - 1) |->
            IF j = ch_l THEN v0
            ELSE IF j = ch_l + 1 THEN BitOr(v1, 1)
            ELSE sb[j]]

\* rhd_sample(ch) with ch above 31
rhd_sample_beyond(c) ==
    \E w \in adc_cmd_beyond(c) :
    \E o \in RwOutcomes(rhd_send_tx(w, 0), rhd_send_len, FALSE, 0) :
        /\ Start("sample", c, 0)
        /\ Xchg(rhd_send_tx(w, 0), rhd_send_len, o, TRUE)
        /\ sample_buf' = rhd_get_samples_beyond(sample_buf, o.rx, c)
        /\ ret' = rhd_send_ret(o)
        /\ dec' = << << 1, c >> >>
        /\ written' = sample_idx(c)
        /\ UNCHANGED << pc, i, ch >>

\* rhd_setup: the first dummy read
SetupBegin ==
    \E o \in RwOutcomes(rhd_send_tx(rhd_r_reg(CHIP_ID), 0), rhd_send_len, FALSE, 0) :
        /\ Start("setup", 0, 0)
        /\ Xchg(rhd_send_tx(rhd_r_reg(CHIP_ID), 0), rhd_send_len, o, TRUE)
        /\ pc' = "setup"
        /\ i' = 0 - 1
        /\ dec' = << >>
        /\ written' = {}
        /\ UNCHANGED << sample_buf, ch, ret >>

\* rhd_setup: the second dummy read, then int ret = 0
SetupDummy ==
    /\ Cont("setup")
    /\ i = 0 - 1
    /\ \E o \in RwOutcomes(rhd_send_tx(rhd_r_reg(CHIP_ID), 0), rhd_send_len, FALSE, nfail) :
            /\ Xchg(rhd_send_tx(rhd_r_reg(CHIP_ID), 0), rhd_send_len, o, FALSE)
            /\ i' = 0
            /\ ret' = 0
            /\ UNCHANGED << sample_buf, pc, ch, dec, written, badreg >>

\* rhd_setup: loop step i, and the return after the last one
SetupWrite ==
    /\ Cont("setup")
    /\ i >= 0
    /\ i < NREG
    /\ \E bad \in BOOLEAN :
       \E o \in RwOutcomes(rhd_send_tx(rhd_w_reg(i), val_buf[i]), rhd_send_len, bad, nfail) :
            /\ bad => (rw \in Chips /\ badreg = NoReg /\ i \in FaultRegs)
            /\ Xchg(rhd_send_tx(rhd_w_reg(i), val_buf[i]), rhd_send_len, o, FALSE)
            /\ badreg' = IF bad THEN i ELSE badreg
            /\ ret' = setup_check(ret, o.rx, i)
            /\ i' = i + 1
            /\ pc' = IF setup_continue(i, setup_check(ret, o.rx, i))
                     THEN "setup" ELSE "idle"
            /\ UNCHANGED << sample_buf, ch, dec, written >>

\* rhd_calib: the calibration command
CalibBegin ==
    \E o \in RwOutcomes(rhd_send_tx(CALIB_CMD, 0), rhd_send_len, FALSE, 0) :
        /\ Start("calib", 0, 0)
        /\ Xchg(rhd_send_tx(CALIB_CMD, 0), rhd_send_len, o, TRUE)
        /\ ret' = rhd_send_ret(o)
        /\ pc' = "calib"
        /\ i' = 0
        /\ dec' = << >>
        /\ written' = {}
        /\ UNCHANGED << sample_buf, ch >>

\* rhd_calib: dummy read i, and the return after the ninth
CalibDummy ==
    /\ Cont("calib")
    /\ i < 9
    /\ \E o \in RwOutcomes(rhd_send_tx(rhd_r_reg(CHIP_ID), 0), rhd_send_len, FALSE, nfail) :
            /\ Xchg(rhd_send_tx(rhd_r_reg(CHIP_ID), 0), rhd_send_len, o, FALSE)
            /\ i' = i + 1
            /\ pc' = IF i + 1 < 9 THEN "calib" ELSE "idle"
            /\ ret' = calib_ret(ret, o)
            /\ UNCHANGED << sample_buf, ch, dec, written, badreg >>

\* rhd_sample_all: the priming exchange
SampleAllBegin ==
    \E o \in RwOutcomes(rhd_send_raw_tx(sample_all_first), rhd_send_raw_len, FALSE, 0) :
        /\ Start("sample_all", 0, 0)
        /\ Xchg(rhd_send_raw_tx(sample_all_first), rhd_send_raw_len, o, TRUE)
        /\ pc' = "sample_all"
        /\ i' = 2
        /\ ch' = 0
        /\ dec' = << >>
        /\ written' = {}
        /\ UNCHANGED << sample_buf, ret >>

\* rhd_sample_all: loop step i, and the mask and return after the last one
SampleAllStep ==
    /\ Cont("sample_all")
    /\ i < 34
    /\ \E o \in RwOutcomes(rhd_send_raw_tx(sample_all_cmd(i)), rhd_send_raw_len, FALSE, nfail) :
            /\ Xchg(rhd_send_raw_tx(sample_all_cmd(i)), rhd_send_raw_len, o, FALSE)
            /\ LET sb == sample_decode(sample_buf, o, ch)
               IN IF i + 1 < 34
                  THEN /\ sample_buf' = sb
                       /\ written' = written \cup sample_idx(ch)
                       /\ pc' = "sample_all"
                  ELSE /\ sample_buf' = sample_all_mark(sb)
                       /\ written' = written \cup sample_idx(ch) \cup {1}
                       /\ pc' = "idle"
            /\ dec' = Append(dec, << nx + 1, ch >>)
            /\ ch' = ch + 1
            /\ i' = i + 1
            /\ UNCHANGED << ret, badreg >>

\* ----------------------------------------------------------- specification
\* arguments the calls are tried with
RawVals == {170}
SendRegs == {170}
RwRegs == {15, 63}
SendVals == {85}
Channels == 0..(NCH - 1)

NoExchange == [tx |-> Buf2(0, 0), len |-> 0, st |-> 0, wr |-> {},
               txp |-> "none", rxp |-> "none"]

NoCodec == [fn |-> "none", arg |-> 0, out |-> 0, a |-> 0, b |-> 0]

\* a session declared and initialised by rhd_init; its buffers hold garbage
Init ==
    \E g \in GarbageWords :
        /\ double_bits \in BOOLEAN
        /\ rw \in Transports
        /\ tx_buf = Buf2(g, g)
        /\ rx_buf = Buf2(g, g)
        /\ sample_buf = [j \in 0..(NBYTES - 1) |-> U8(g)]
        /\ pc = "idle"
        /\ i = 0
        /\ ch = 0
        /\ ret = 0
        /\ op = "init"
        /\ a1 = 0
        /\ a2 = 0
        /\ nx = 0
        /\ last = NoExchange
        /\ nfail = 0
        /\ dec = << >>
        /\ written = {}
        /\ hist = << Buf2(0, 0), Buf2(0, 0) >>
        /\ badreg = NoReg
        /\ ops = 0
        /\ prev = "none"
        /\ codec = NoCodec

\* the calls of a run, each with the arguments it is tried with
Init_call == ops < MaxOps /\ \E mode \in BOOLEAN, h \in Transports : rhd_init(mode, h)
SendRaw_call == ops < MaxOps /\ \E val \in RawVals : rhd_send_raw(val)
Send_call == ops < MaxOps /\ \E reg \in SendRegs, val \in SendVals : rhd_send(reg, val)
R_call == ops < MaxOps /\ \E reg \in RwRegs, val \in SendVals : rhd_r(reg, val)
W_call == ops < MaxOps /\ \E reg \in RwRegs, val \in SendVals : rhd_w(reg, val)
ClearCalib_call == ops < MaxOps /\ rhd_clear_calib
Sample_call == ops < MaxOps /\ \E c \in Channels : rhd_sample(c)
Setup_call == ops < MaxOps /\ SetupBegin
Calib_call == ops < MaxOps /\ CalibBegin
SampleAll_call == ops < MaxOps /\ SampleAllBegin

Next ==
    \/ Init_call
    \/ SendRaw_call
    \/ Send_call
    \/ R_call
    \/ W_call
    \/ ClearCalib_call
    \/ Sample_call
    \/ Setup_call
    \/ SetupDummy
    \/ SetupWrite
    \/ Calib_call
    \/ CalibDummy
    \/ SampleAll_call
    \/ SampleAllStep

Spec == Init /\ [][Next]_vars

\* one rhd_send, rhd_r or rhd_w on a fresh session, over every argument
ArgsInit == Init /\ rw = Chip2Rw /\ tx_buf[0] = 0

SendAny == ops = 0 /\ \E reg \in 0..255, val \in 0..255 : rhd_send(reg, val)
ReadAny == ops = 0 /\ \E reg \in 0..63, val \in 0..255 : rhd_r(reg, val)
WriteAny == ops = 0 /\ \E reg \in 0..63, val \in 0..255 : rhd_w(reg, val)

ArgsNext == SendAny \/ ReadAny \/ WriteAny

SpecArgs == ArgsInit /\ [][ArgsNext]_vars

\* the bit codec called directly, as the tests do: rhd_duplicate_bits on a
\* byte, rhd_unsplit_u16 on a word, rhd_unsplit_u16 on the doubled byte
CodecInit == Init /\ rw = FlakyRw /\ ~double_bits

CodecIdle == pc = "idle" /\ codec.fn = "none"

CodecKeep ==
    UNCHANGED << double_bits, rw, tx_buf, rx_buf, sample_buf, pc, i, ch, ret, op,
                 a1, a2, nx, last, nfail, dec, written, hist, badreg, ops, prev >>

DuplicateBits_call ==
    /\ CodecIdle
    /\ \E val \in 0..(ByteMod - 1) :
           codec' = [fn |-> "duplicate_bits", arg |-> val,
                     out |-> rhd_duplicate_bits(val), a |-> 0, b |-> 0]
    /\ CodecKeep

Unsplit_call ==
    /\ CodecIdle
    /\ \E data \in 0..(WordMod - 1) :
           codec' = [fn |-> "unsplit_u16", arg |-> data, out |-> 0,
                     a |-> rhd_unsplit_u16(data).a, b |-> rhd_unsplit_u16(data).b]
    /\ CodecKeep

DupeUnsplit_call ==
    /\ pc = "idle"
    /\ codec.fn = "duplicate_bits"
    /\ codec' = [fn |-> "dupe_unsplit", arg |-> codec.arg, out |-> codec.out,
                 a |-> rhd_unsplit_u16(codec.out).a,
                 b |-> rhd_unsplit_u16(codec.out).b]
    /\ CodecKeep

CodecNext == DuplicateBits_call \/ Unsplit_call \/ DupeUnsplit_call

SpecCodec == CodecInit /\ [][CodecNext]_vars

\* sequences of sampling and register calls on a session behind a chip
SeqInit == Init /\ rw \in Chips

SeqChannels == {0, 31}

SeqSampleAll_call == ops < MaxSeq /\ SampleAllBegin
SeqSample_call == ops < MaxSeq /\ \E c \in SeqChannels : rhd_sample(c)
SeqR_call == ops < MaxSeq /\ rhd_r(CHIP_ID, 0)
SeqW_call == ops < MaxSeq /\ rhd_w(0, val_buf[0])

SeqNext ==
    \/ SeqSampleAll_call
    \/ SeqSample_call
    \/ SeqR_call
    \/ SeqW_call
    \/ SampleAllStep

SpecSeq == SeqInit /\ [][SeqNext]_vars

\* one call with an argument outside its documented range: a register address
\* above 63 (uint16_t reg), a channel above 31 (uint8_t ch)
BeyondRegs == {64, 79, 127, 255, 319}
BeyondChannels == {32, 63, 64, 255}

ReadBeyond == ops = 0 /\ \E reg \in BeyondRegs, val \in SendVals : rhd_r(reg, val)
WriteBeyond == ops = 0 /\ \E reg \in BeyondRegs, val \in SendVals : rhd_w(reg, val)
SampleBeyond == ops = 0 /\ \E c \in BeyondChannels : rhd_sample_beyond(c)

RangeNext == ReadBeyond \/ WriteBeyond \/ SampleBeyond

SpecRange == Init /\ [][RangeNext]_vars

\* ------------------------------------------------------------------ claims
ModeTable == IF double_bits THEN RHD_ADC_CH_CMD_DOUBLE ELSE RHD_ADC_CH_CMD
ModeLen == IF double_bits THEN 2 ELSE 1
Returned(name) == op = name /\ pc = "idle"

\* bit n of x copied into bits 2n and 2n+1, n = 0..7
DoubledBits(x) ==
    LET S[n \in 0..8] == IF n = 8 THEN 0
                         ELSE Bit(x, n) * ((2 ^ (2 * n)) + (2 ^ (2 * n + 1))) + S[n + 1]
    IN S[0]

\* the channel whose command exchange n of a sweep carries
SweepChannel(n) == IF n <= 31 THEN n ELSE 0

\* C1: rhd_sample_all makes exactly 33 exchanges, carrying the mode's table
\* entries for channels 1, 2, ..., 31, 0, 0 in this order; nothing is decoded
\* after the first, the reply of exchange n (n = 2..33) is decoded into logical
\* channel n - 2, and the last word left in tx_buf[0] is the entry of channel 0.
C1_SweepSequence ==
    op = "sample_all" =>
        /\ nx \in 1..33
        /\ last.tx[0] = ModeTable[SweepChannel(nx)]
        /\ dec = [n \in 1..(nx - 1) |-> << n + 1, n - 1 >>]
        /\ pc = "sample_all" => (nx < 33 /\ i = nx + 1)
        /\ pc = "idle" => (nx = 33 /\ tx_buf[0] = ModeTable[0])

C1_Witness ==
    /\ Returned("sample_all")
    /\ double_bits
    /\ nx = 33
    /\ Len(dec) = 32
    /\ dec[32] = << 33, 31 >>

\* the words the driver sends in a sweep to request channel c
SweepRequest(c) == [tx_buf EXCEPT ![0] = ModeTable[c]]

\* logical slot k holds the decoded reply to the sweep's request for channel c,
\* the flag bit aside; bank B is received in doubled mode only
SlotHoldsReplyTo(k, c) ==
    LET rep == chip_result(SweepRequest(c), ModeLen, FALSE)
        NoFlag(b) == b - (b % 2)
    IN IF double_bits
       THEN /\ sample_buf[2 * k] = rhd_unsplit_u16(rep[0]).a
            /\ sample_buf[2 * k + 64] = rhd_unsplit_u16(rep[0]).b
            /\ NoFlag(sample_buf[2 * k + 1]) = NoFlag(rhd_unsplit_u16(rep[1]).a)
            /\ NoFlag(sample_buf[2 * k + 65]) = NoFlag(rhd_unsplit_u16(rep[1]).b)
       ELSE /\ sample_buf[2 * k] = rep[0] \div 256
            /\ NoFlag(sample_buf[2 * k + 1]) = NoFlag(rep[0] % 256)

\* C2 as stated: behind a chip that answers request N during exchange N+1,
\* after rhd_sample_all slot k holds the reply to the request for channel k.
C2_SlotHoldsOwnChannel ==
    (Returned("sample_all") /\ rw = Chip1Rw /\ nfail = 0) =>
        \A k \in 0..31 : SlotHoldsReplyTo(k, k)

\* C2 amended: behind a chip that answers request N during exchange N+1, after
\* rhd_sample_all slot k holds the reply to the request for channel k + 1
\* (k = 0..30) and slot 31 the reply to the first request for channel 0.
C2_SlotHoldsNextChannel ==
    (Returned("sample_all") /\ rw = Chip1Rw /\ nfail = 0) =>
        \A k \in 0..31 : SlotHoldsReplyTo(k, (k + 1) % 32)

C2_Witness ==
    /\ Returned("sample_all")
    /\ rw = Chip1Rw
    /\ nfail = 0
    /\ double_bits
    /\ sample_buf[10] = 6
    /\ sample_buf[62] = 0

\* C3: right after rhd_sample_all returns, bit 0 of sample_buf[1] is 0 and bit 0
\* of every other odd-indexed byte of the sample buffer is 1.
C3_SweepFlags ==
    Returned("sample_all") =>
        /\ sample_buf[1] % 2 = 0
        /\ \A j \in 1..63 : sample_buf[2 * j + 1] % 2 = 1

C3_Witness ==
    /\ Returned("sample_all")
    /\ ~double_bits
    /\ rw = FlakyRw
    /\ sample_buf[1] = 170
    /\ sample_buf[3] = 171

\* C4: a call other than rhd_sample_all in which some exchange returned a
\* negative status returns a negative status itself.
C4_FailureReported ==
    (pc = "idle" /\ op \in {"send", "send_raw", "r", "w", "sample", "setup",
                            "calib", "clear_calib"} /\ nfail > 0) => ret < 0

\* C5: rhd_send, rhd_send_raw, rhd_r, rhd_w, rhd_sample and rhd_clear_calib make
\* one exchange and return the value the transport returned for it.
C5_OneExchangeStatusReturned ==
    (pc = "idle" /\ op \in {"send", "send_raw", "r", "w", "sample", "clear_calib"}) =>
        /\ nx = 1
        /\ ret = last.st

C5_Witness ==
    /\ Returned("sample")
    /\ nx = 1
    /\ last.st = 0 - 5
    /\ ret = 0 - 5

\* C6: when the chip echoes a value other than the intended one for some
\* register 0..21, rhd_setup returns -1.
C6_EveryRegisterVerified ==
    (Returned("setup") /\ badreg \in 0..21) => ret = 0 - 1

\* C7: every exchange asks for 2 words in doubled mode and 1 in plain mode and
\* is handed the session's tx_buf and rx_buf; only rhd_init changes the mode
\* flag and the transport.
C7_ExchangeShape ==
    [][ /\ nx' > 0 => /\ last'.len = (IF double_bits' THEN 2 ELSE 1)
                      /\ last'.txp = "tx_buf"
                      /\ last'.rxp = "rx_buf"
                      /\ last'.tx = tx_buf'
        /\ (double_bits' # double_bits \/ rw' # rw) => (op' = "init" /\ nx' = 0)
      ]_vars

C7_Witness ==
    /\ op = "sample_all"
    /\ double_bits
    /\ nx = 33
    /\ last.len = 2

\* C8: rhd_send(reg, val), reg and val 8-bit, transmits the one word
\* (reg << 8) | val in plain mode and the two words duplicate_bits(reg),
\* duplicate_bits(val) in doubled mode; 0xAA, 0x55 give 0xAA55 and 0xCCCC, 0x3333.
C8_SendWords ==
    (Returned("send") /\ a1 \in 0..255 /\ a2 \in 0..255) =>
        /\ nx = 1
        /\ IF double_bits
           THEN /\ last.len = 2
                /\ last.tx[0] = DoubledBits(a1)
                /\ last.tx[1] = DoubledBits(a2)
                /\ (a1 = 170 /\ a2 = 85) => (last.tx[0] = 52428 /\ last.tx[1] = 13107)
           ELSE /\ last.len = 1
                /\ last.tx[0] = a1 * 256 + a2
                /\ (a1 = 170 /\ a2 = 85) => last.tx[0] = 43605

C8_Witness ==
    /\ Returned("send")
    /\ a1 = 170
    /\ a2 = 85
    /\ double_bits
    /\ last.tx[0] = 52428
    /\ last.tx[1] = 13107

\* C9: rhd_r(reg, val) and rhd_w(reg, val), reg in 0..63 and val 8-bit, send
\* the command byte 0xC0 | reg and 0x80 | reg with val: as high and low byte of
\* the one word in plain mode, bit-doubled in the two words in doubled mode.
C9_ReadWriteCommand ==
    (pc = "idle" /\ op \in {"r", "w"} /\ a1 \in 0..63 /\ a2 \in 0..255) =>
        LET cmd == (IF op = "r" THEN 192 ELSE 128) + a1
        IN /\ nx = 1
           /\ IF double_bits
              THEN /\ last.len = 2
                   /\ last.tx[0] = DoubledBits(cmd)
                   /\ last.tx[1] = DoubledBits(a2)
              ELSE /\ last.len = 1
                   /\ last.tx[0] \div 256 = cmd
                   /\ last.tx[0] % 256 = a2

C9_Witness ==
    /\ Returned("w")
    /\ a1 = 15
    /\ a2 = 85
    /\ ~double_bits
    /\ last.tx[0] = 36693

\* C10: rhd_sample(ch), ch in 0..31, stores to the four bytes 2ch, 2ch+1,
\* 2ch+64 and 2ch+65 of the sample buffer, all within 0..127, and leaves the
\* other 124 bytes as they were; afterwards bytes 2ch+1 and 2ch+65 have bit 0 set.
C10_SampleFrame ==
    [][ (op' = "sample" /\ ops' # ops) =>
            LET c == a1'
                four == {2 * c, 2 * c + 1, 2 * c + 64, 2 * c + 65}
            IN /\ c \in 0..31
               /\ written' = four
               /\ four \subseteq 0..127
               /\ \A j \in (0..127) \ four : sample_buf'[j] = sample_buf[j]
               /\ sample_buf'[2 * c + 1] % 2 = 1
               /\ sample_buf'[2 * c + 65] % 2 = 1
      ]_vars

C10_Witness ==
    /\ Returned("sample")
    /\ a1 = 31
    /\ double_bits
    /\ sample_buf[62] = 255
    /\ sample_buf[63] = 1
    /\ sample_buf[126] = 0
    /\ sample_buf[127] = 255
    /\ sample_buf[0] = 0
    /\ sample_buf[61] = 0

\* the latest exchange carried command byte cmd with value val in the mode's form
SentAs(cmd, val) ==
    /\ last.len = ModeLen
    /\ IF double_bits
       THEN last.tx[0] = DoubledBits(cmd) /\ last.tx[1] = DoubledBits(val)
       ELSE last.tx[0] = cmd * 256 + val

\* C11: rhd_calib makes exactly 10 exchanges: the command byte 0b01010101 with
\* value 0, then 9 reads of register 63 with value 0; its result is the status
\* of the first exchange whatever the 9 others return.
C11_CalibSequence ==
    [][ op' = "calib" =>
            /\ nx' \in 1..10
            /\ IF nx' = 1 THEN SentAs(85, 0)' ELSE SentAs(192 + 63, 0)'
            /\ (pc' = "idle") = (nx' = 10)
            /\ IF nx' = 1 THEN ret' = last'.st ELSE (nx' = nx + 1 /\ ret' = ret)
      ]_vars

C11_Witness ==
    /\ Returned("calib")
    /\ nx = 10
    /\ ret = 1
    /\ last.st = 0 - 5
    /\ last.tx[0] = 65280

\* C12: for every byte x, rhd_unsplit_u16(rhd_duplicate_bits(x)) gives a = x and
\* b = x; for every 16-bit data, bit n of a is bit 2n+1 of data and bit n of b
\* is bit 2n of data, n = 0..7.
C12_CodecRoundTrip ==
    /\ codec.fn = "dupe_unsplit" =>
            /\ codec.arg \in 0..255
            /\ codec.a = codec.arg
            /\ codec.b = codec.arg
    /\ codec.fn = "unsplit_u16" =>
            /\ codec.a \in 0..255
            /\ codec.b \in 0..255
            /\ \A n \in 0..7 : /\ Bit(codec.a, n) = Bit(codec.arg, 2 * n + 1)
                                /\ Bit(codec.b, n) = Bit(codec.arg, 2 * n)

C12_Witness ==
    /\ codec.fn = "dupe_unsplit"
    /\ codec.arg = 135
    /\ codec.out = 49215
    /\ codec.a = 135

\* C13: rhd_setup makes exactly 24 exchanges whatever is echoed and whatever
\* the transport returns: two reads of register 63, then one write to each of
\* the registers 0, 1, ..., 21 in this order, carrying the register's table value.
C13_SetupSequence ==
    op = "setup" =>
        /\ nx \in 1..24
        /\ IF nx <= 2 THEN SentAs(192 + 63, 0)
           ELSE SentAs(128 + (nx - 3), val_buf[nx - 3])
        /\ (pc = "idle") = (nx = 24)

C13_Witness ==
    /\ Returned("setup")
    /\ ~double_bits
    /\ nx = 24
    /\ nfail = 1
    /\ ret = 0 - 1
    /\ last.tx[0] = 38399

\* the odd bits of a word, bit 2n+1 as bit n
OddBits(w) ==
    LET S[n \in 0..8] == IF n = 8 THEN 0 ELSE Bit(w, 2 * n + 1) * (2 ^ n) + S[n + 1]
    IN S[0]

\* the value rhd_setup reads out of a reply
EchoOf(rx) == IF double_bits THEN OddBits(rx[1]) ELSE rx[0] % 256

\* C14 as stated: the value in the reply received during the write to register
\* r (r >= 1) is compared with the table value of register r - 1, a difference
\* making the result -1.
C14_ComparesPreviousWrite ==
    [][ (op' = "setup" /\ nx' >= 4) =>
            ret' = IF EchoOf(rx_buf') # val_buf[nx' - 4] THEN 0 - 1 ELSE ret
      ]_vars

\* C14 amended: the value in the reply received during the write to register r
\* is compared with the table value of register r - 2, for r >= 2, a difference
\* making the result -1; the writes to registers 0 and 1 compare nothing. The
\* value is the low byte of rx_buf[0] in plain mode and the odd bits of
\* rx_buf[1] in doubled mode.
C14_ComparesSecondPreviousWrite ==
    [][ (op' = "setup" /\ nx' >= 3) =>
            ret' = IF nx' >= 5 /\ EchoOf(rx_buf') # val_buf[nx' - 5]
                   THEN 0 - 1 ELSE ret
      ]_vars

C14_Witness ==
    /\ Returned("setup")
    /\ rw = Chip2Rw
    /\ double_bits
    /\ badreg = 19
    /\ ret = 0 - 1

\* bit 0 of sample_buf[1] is 0, bit 0 of every other odd-indexed byte is 1
SweepFlags ==
    /\ sample_buf[1] % 2 = 0
    /\ \A j \in 1..63 : sample_buf[2 * j + 1] % 2 = 1

\* C15: once a rhd_sample_all has completed, after every further rhd_sample(ch)
\* (ch in 0..31), rhd_sample_all or register call bit 0 of sample_buf[1] is 0
\* and bit 0 of every other odd-indexed byte of the sample buffer is 1.
C15_FlagsKeptAfterSweep ==
    (pc = "idle" /\ (op = "sample_all" \/ prev = "sample_all")) => SweepFlags

\* the latest exchange was followed by a sample decode, into this channel
SampleDecoded == (op = "sample" /\ nx = 1) \/ (op = "sample_all" /\ nx >= 2)
DecodedChannel == IF op = "sample" THEN a1 ELSE nx - 2

\* b with bit 0 set
FlagSet(b) == b - (b % 2) + 1

\* C16 as stated: in plain mode, after the reply for channel c is decoded,
\* byte 2c is the low byte of the bank-A word and byte 2c+1 its high byte with
\* bit 0 set; bytes 2c+64 and 2c+65 likewise from the bank-B word.
C16_PlainLowByteFirst ==
    (SampleDecoded /\ ~double_bits) =>
        LET c == DecodedChannel
        IN /\ sample_buf[2 * c] = rx_buf[0] % 256
           /\ sample_buf[2 * c + 1] = FlagSet(rx_buf[0] \div 256)
           /\ sample_buf[2 * c + 64] = rx_buf[1] % 256
           /\ sample_buf[2 * c + 65] = FlagSet(rx_buf[1] \div 256)

\* C16 amended: in plain mode, after the reply for channel c is decoded, byte 2c
\* is the high byte of rx_buf[0] and byte 2c+1 its low byte with bit 0 set;
\* bytes 2c+64 and 2c+65 are the high byte and the low byte with bit 0 set of
\* rx_buf[1].
C16_PlainHighByteFirst ==
    (SampleDecoded /\ ~double_bits) =>
        LET c == DecodedChannel
        IN /\ c \in 0..31
           /\ sample_buf[2 * c] = rx_buf[0] \div 256
           /\ sample_buf[2 * c + 1] = FlagSet(rx_buf[0] % 256)
           /\ sample_buf[2 * c + 64] = rx_buf[1] \div 256
           /\ sample_buf[2 * c + 65] = FlagSet(rx_buf[1] % 256)

C16_Witness ==
    /\ Returned("sample_all")
    /\ ~double_bits
    /\ rw = Chip1Rw
    /\ rx_buf[0] = 0
    /\ sample_buf[10] = 0
    /\ sample_buf[11] = 7
    /\ sample_buf[62] = 0
    /\ sample_buf[63] = 1

\* C17: behind a chip that answers a command two exchanges later, after a
\* rhd_sample_all that directly follows another rhd_sample_all every slot k in
\* 0..31 holds the chip's result for a channel-k request: slot 0 that of the
\* previous sweep's last command, slot k >= 1 that of this sweep's channel-k
\* command.
C17_BackToBackSweepAligned ==
    (Returned("sample_all") /\ prev = "sample_all" /\ rw = Chip2Rw) =>
        \A k \in 0..31 : SlotHoldsReplyTo(k, k)

C17_Witness ==
    /\ Returned("sample_all")
    /\ prev = "sample_all"
    /\ rw = Chip2Rw
    /\ double_bits
    /\ sample_buf[0] = 0
    /\ sample_buf[10] = 5
    /\ sample_buf[74] = 5
    /\ sample_buf[62] = 31

\* C18: rhd_r and rhd_w called with a register address above 63, and rhd_sample
\* called with a channel above 31, report the violated precondition: the result
\* is not a success, nothing is transmitted and no sample-buffer index outside
\* 0..127 is stored to.
C18_OutOfRangeReported ==
    (pc = "idle" /\ ((op \in {"r", "w"} /\ a1 > 63) \/ (op = "sample" /\ a1 > 31))) =>
        /\ ret < 0
        /\ nx = 0
        /\ written \subseteq 0..(NBYTES - 1)

\* the latest exchange filled exactly the receive words it was asked for
ExactFill == last.wr = 0..(last.len - 1)

\* the latest exchange was followed by rhd_setup's comparison
ValDecoded == op = "setup" /\ nx >= 5

\* C19: when the transport fills exactly the words of the exchange it is asked
\* for (1 in plain, 2 in doubled mode), every receive word a decode reads
\* (sample decode in rhd_sample and rhd_sample_all, value extraction in
\* rhd_setup) was written by the exchange just before it.
C19_DecodeReadsFreshWords ==
    ExactFill =>
        /\ SampleDecoded => samples_rx_read \subseteq last.wr
        /\ ValDecoded => val_rx_read \subseteq last.wr

\* C20: in each mode the words handed to the transport when rhd_sample_all
\* requests channel c are the words rhd_sample(c) hands over: the command byte
\* c with value 0, as one word in plain mode and as two doubled words in
\* doubled mode.
C20_SweepSendsSampleWords ==
    /\ (op = "sample" /\ a1 \in 0..31 /\ nx = 1) => SentAs(a1, 0)
    /\ op = "sample_all" => SentAs(SweepChannel(nx), 0)

\* the even bits of a word, bit 2n as bit n
EvenBits(w) ==
    LET S[n \in 0..8] == IF n = 8 THEN 0 ELSE Bit(w, 2 * n) * (2 ^ n) + S[n + 1]
    IN S[0]

\* the four bytes a decode of rx gives: bank A, bank A flag byte, bank B,
\* bank B flag byte
DecodeOf(rx) ==
    IF double_bits
    THEN << OddBits(rx[0]), FlagSet(OddBits(rx[1])),
            EvenBits(rx[0]), FlagSet(EvenBits(rx[1])) >>
    ELSE << rx[0] \div 256, FlagSet(rx[0] % 256),
            rx[1] \div 256, FlagSet(rx[1] % 256) >>

\* C21: the sample decode does not depend on the transport status: when the
\* exchange of rhd_sample(ch) or of a decoding step of rhd_sample_all returns a
\* negative status and leaves rx_buf as it was, the four bytes of the slot are
\* still overwritten with the decode of that stale rx_buf, and rhd_sample
\* returns the negative status.
C21_DecodeWhateverStatus ==
    [][ ( /\ \/ (op' = "sample" /\ ops' # ops)
             \/ (op' = "sample_all" /\ nx' >= 2 /\ nx' # nx)
          /\ last'.st < 0 ) =>
            LET c == IF op' = "sample" THEN a1' ELSE nx' - 2
                d == DecodeOf(rx_buf)
            IN /\ rx_buf' = rx_buf
               /\ sample_buf'[2 * c] = d[1]
               /\ sample_buf'[2 * c + 1] = d[2]
               /\ sample_buf'[2 * c + 64] = d[3]
               /\ sample_buf'[2 * c + 65] = d[4]
               /\ {2 * c, 2 * c + 1, 2 * c + 64, 2 * c + 65} \subseteq written'
               /\ op' = "sample" => ret' = last'.st
      ]_vars

C21_Witness ==
    /\ Returned("sample")
    /\ a1 = 10
    /\ ret = 0 - 5
    /\ last.st = 0 - 5
    /\ rx_buf[0] = 0
    /\ sample_buf[20] = 0
    /\ sample_buf[21] = 1
    /\ sample_buf[84] = 0
    /\ sample_buf[85] = 1
    /\ sample_buf[23] = 0

====
